---------------------------- MODULE Spec2Model ----------------------------
(***************************************************************************)
(* The resource-pressure harness of secpro_starbed: a Harness that starts  *)
(* one Worker process per core, runs memory_monitor inline, joins the      *)
(* Workers and prints the summary.  The repository holds four variants of  *)
(* the same program (b/b.py, c.py, b/finumpy.py, FN.py); prog says which   *)
(* one runs.  Workers that are processes interleave at every access to a   *)
(* shared object (stop_event, the multiprocessing.Value counters and their *)
(* locks); steps on process-local data are folded into the next such step. *)
(***************************************************************************)
EXTENDS Integers, FiniteSets, Sequences, TLC

(* ------------------------------ bounds -------------------------------- *)
\* os.cpu_count(): the number of Worker processes.
NumWorkers == 2
\* Units of ballast (one history entry each) the host can hold before the
\* allocator raises MemoryError.
MemCap == 4
\* BATCH_SIZE of b.py:13 and c.py:14 (50000 there), scaled down.
BATCH_SIZE == 2
\* The period of the in-loop stop check of finumpy.py:104 (10 there).
CheckEvery == 2
\* THRESHOLD (1e300) and 1/SCALE_FACTOR (1e150) of b.py:14-15, scaled down.
THRESHOLD == 2
ScaleDiv == 2
\* How far below the ceiling the memory samples go, and how far below 100 %
\* the CPU samples.
MemSpread == 2
CpuSpread == 0
\* The largest finite float (1.8e308 against THRESHOLD's 1e300), scaled
\* down with THRESHOLD.
FLOAT_MAX == 16
\* The length of the accumulator runs that are examined on their own.
AccDepth == 16

(* ------------------------- program constants -------------------------- *)
MEMORY_LIMIT_PERCENT == 95
CHUNK_SIZE_MB == 100
MATRIX_SIZE == 2500

Workers == 1..NumWorkers
Programs == {"b", "c", "finumpy", "FN"}
MemSamples == (MEMORY_LIMIT_PERCENT - MemSpread)..(MEMORY_LIMIT_PERCENT + 1)
CpuSamples == (100 - CpuSpread)..100

VARIABLES
  prog,            \* which of the four scripts is running
  stop_event,      \* multiprocessing.Event: TRUE when set
  total_counter,   \* total_items / total_matrices / total_allocated_mb .value
  scale_counter,   \* scale_counts.value (b.py, c.py)
  total_bytes,     \* total_bytes.value (finumpy.py)
  lock,            \* holder of each Value's lock, 0 when free
  max_mem_record,  \* peak register
  max_cpu_record,  \* peak register
  mpc,             \* position of memory_monitor
  mexit,           \* how memory_monitor was left
  cpu_percent,     \* the monitor's current CPU sample
  mem_percent,     \* the monitor's current memory sample
  wpc,             \* position of each Worker
  batch_i,         \* iterations done of the current for-loop batch
  local_added,     \* local_added_count / local_added / local_count
  local_scale,     \* local_scale_count / local_scale
  local_bytes,     \* local_bytes (finumpy.py)
  a, b,            \* accumulator registers, as reduced fractions <<num, den>>
  history,         \* len(history) / len(data_store): retained ballast units
  tmp,             \* the value a Worker read inside "value += x", 0 outside
  hpc,             \* position of the Harness (__main__)
  joined,          \* number of Workers whose p.join() has returned
  summary,         \* <<the values read for the summary>>, << >> before
  \* history variables, read by no action
  exc,             \* the exception that ended each Worker's loop
  steps,           \* accumulator steps each Worker has run
  flushes,         \* writes each Worker made to <<total counter, 2nd counter>>
  afterStop,       \* loop iterations each Worker began with stop_event set
  stop_by,         \* who has called stop_event.set()
  cpuTakenMax,     \* largest CPU sample the telemetry provider has returned
  memTakenMax      \* largest memory sample the provider has returned

shared == <<stop_event, total_counter, scale_counter, total_bytes, lock>>
peaks == <<max_mem_record, max_cpu_record>>
monitorVars == <<mpc, mexit, cpu_percent, mem_percent, cpuTakenMax, memTakenMax>>
workerLocals ==
  <<batch_i, local_added, local_scale, local_bytes, a, b, history, steps>>
workerVars == <<wpc, workerLocals, tmp, exc, flushes, afterStop>>
harnessVars == <<hpc, joined, summary>>
vars == <<prog, shared, peaks, monitorVars, workerVars, harnessVars, stop_by>>

(* ------------------------- the four variants -------------------------- *)
\* b.py and c.py run the Fibonacci accumulator in batches of BATCH_SIZE;
\* finumpy.py and FN.py do one matrix product per loop iteration.
Arithmetic(p) == p \in {"b", "c"}

\* BatchLen of a loop that counts and checks after every pass.
BatchLen_One(p) == 1

BatchLen(p) == IF Arithmetic(p) THEN BATCH_SIZE ELSE 1

\* Whether the loop body ends with "if stop_event.is_set(): break".
HasRecheck(p, count) ==
  CASE p = "b" -> TRUE
    [] p = "c" -> FALSE
    [] p = "finumpy" -> count % CheckEvery = 0
    [] p = "FN" -> TRUE

\* The second counter a Worker flushes in its finally block.
SecondCounter(p) ==
  CASE p \in {"b", "c"} -> "scale_counter"
    [] p = "finumpy" -> "total_bytes"
    [] p = "FN" -> "none"

\* b.py's monitor samples memory only.
SamplesCpu(p) == p # "b"

\* A.nbytes of a MATRIX_SIZE x MATRIX_SIZE float64 matrix.
size_per_step == MATRIX_SIZE * MATRIX_SIZE * 8

\* What the finally block adds to the total counter.
Tally(p, w) ==
  IF p = "FN" THEN local_added[w] * CHUNK_SIZE_MB ELSE local_added[w]

\* What the finally block adds to the second counter.
Tally2(p, w) ==
  CASE p \in {"b", "c"} -> local_scale[w]
    [] p = "finumpy" -> local_bytes[w]
    [] p = "FN" -> 0

(* --------------------------- the accumulator -------------------------- *)
RECURSIVE GCD(_, _)
GCD(x, y) == IF y = 0 THEN x ELSE GCD(y, x % y)

Reduce(q) == LET g == GCD(q[1], q[2]) IN <<q[1] \div g, q[2] \div g>>
RatAdd(x, y) == Reduce(<<x[1] * y[2] + y[1] * x[2], x[2] * y[2]>>)
\* RatGt that compares with twice the bound.
RatGt_Double(x, n) == x[1] > 2 * n * x[2]

RatGt(x, n) == x[1] > n * x[2]
\* RatScale that applies SCALE_FACTOR twice.
RatScale_Twice(x) == Reduce(<<x[1], x[2] * ScaleDiv * ScaleDiv>>)

\* x * SCALE_FACTOR
RatScale(x) == Reduce(<<x[1], x[2] * ScaleDiv>>)
One == <<1, 1>>

\* advance that rescales as soon as b reaches the threshold.
advance_AtThreshold(ra, rb, rescales) ==
  LET na == rb
      nb == RatAdd(ra, rb)
  IN IF ~RatGt(<<THRESHOLD * nb[2], nb[1]>>, 1)
       THEN [a |-> RatScale(na), b |-> RatScale(nb), scale |-> rescales + 1,
             rescaled |-> TRUE]
       ELSE [a |-> na, b |-> nb, scale |-> rescales, rescaled |-> FALSE]

\* One pass of the for-loop body: a, b = b, a + b, then the rescale.
advance(ra, rb, rescales) ==
  LET na == rb
      nb == RatAdd(ra, rb)
  IN IF RatGt(nb, THRESHOLD)
       THEN [a |-> RatScale(na), b |-> RatScale(nb), scale |-> rescales + 1,
             rescaled |-> TRUE]
       ELSE [a |-> na, b |-> nb, scale |-> rescales, rescaled |-> FALSE]

\* The registers after each of the first n passes of the for-loop body,
\* from "a, b = 1.0, 1.0".
RECURSIVE AccRun(_)
AccRun(n) ==
  IF n = 0
    THEN <<[a |-> One, b |-> One, scale |-> 0, rescaled |-> FALSE]>>
    ELSE LET s == AccRun(n - 1)
             last == s[Len(s)]
         IN Append(s, advance(last.a, last.b, last.scale))

(* ------------------------------- memory ------------------------------- *)
RECURSIVE SumTo(_, _)
SumTo(f, n) == IF n = 0 THEN 0 ELSE f[n] + SumTo(f, n - 1)
Sum(f) == SumTo(f, NumWorkers)

\* Ballast units held by all Workers together.
Used == Sum(history)

(* -------------------------------- Init -------------------------------- *)
\* The state when __main__ has created the shared objects, started every
\* Worker and is about to call memory_monitor.
Init ==
  /\ prog \in Programs
  /\ stop_event = FALSE
  /\ total_counter = 0
  /\ scale_counter = 0
  /\ total_bytes = 0
  /\ lock = [c \in {"total_counter", "scale_counter", "total_bytes"} |-> 0]
  /\ max_mem_record = 0
  /\ max_cpu_record = 0
  /\ mpc = "loop"
  /\ mexit = "none"
  /\ cpu_percent = 0
  /\ mem_percent = 0
  /\ wpc = [w \in Workers |-> "loop"]
  /\ batch_i = [w \in Workers |-> 0]
  /\ local_added = [w \in Workers |-> 0]
  /\ local_scale = [w \in Workers |-> 0]
  /\ local_bytes = [w \in Workers |-> 0]
  /\ a = [w \in Workers |-> One]
  /\ b = [w \in Workers |-> One]
  /\ history = [w \in Workers |-> 0]
  /\ tmp = [w \in Workers |-> 0]
  /\ hpc = "monitor"
  /\ joined = 0
  /\ summary = << >>
  /\ exc = [w \in Workers |-> "none"]
  /\ steps = [w \in Workers |-> 0]
  /\ flushes = [w \in Workers |-> <<0, 0>>]
  /\ afterStop = [w \in Workers |-> 0]
  /\ stop_by = {}
  /\ cpuTakenMax = 0
  /\ memTakenMax = 0

(* ------------------------------- Worker ------------------------------- *)
\* WhileCheck that tests the event only every other batch.
WhileCheck_Skip(w) ==
  /\ wpc[w] = "loop"
  /\ wpc' = [wpc EXCEPT
               ![w] = IF stop_event /\ history[w] % (2 * BatchLen(prog)) = 0
                        THEN "flush_total" ELSE "batch"]
  /\ afterStop' = [afterStop EXCEPT
                     ![w] = IF wpc'[w] = "flush_total" THEN 0 ELSE @]
  /\ UNCHANGED <<prog, shared, peaks, monitorVars, workerLocals, tmp, exc,
                 flushes, harnessVars, stop_by>>

\* "while not stop_event.is_set():" (b.py:59, c.py:112, finumpy.py:89,
\* FN.py:64); a set event falls through to the finally block.
WhileCheck(w) ==
  /\ wpc[w] = "loop"
  /\ wpc' = [wpc EXCEPT ![w] = IF stop_event THEN "flush_total" ELSE "batch"]
  /\ afterStop' = [afterStop EXCEPT ![w] = IF stop_event THEN 0 ELSE @]
  /\ UNCHANGED <<prog, shared, peaks, monitorVars, workerLocals, tmp, exc,
                 flushes, harnessVars, stop_by>>

\* One iteration that allocates successfully.  b.py, c.py: one pass of the
\* for-loop (accumulator step, one unit appended to history); the pass that
\* completes the batch also runs "local_added += BATCH_SIZE".  finumpy.py,
\* FN.py: one pass of the while body (product, append, local_count += 1).
Step(w) ==
  /\ wpc[w] = "batch"
  /\ Used < MemCap
  /\ \E r \in {advance(a[w], b[w], local_scale[w])} :
     LET last == batch_i[w] + 1 = BatchLen(prog)
         count == IF last THEN local_added[w] + BatchLen(prog)
                          ELSE local_added[w]
     IN /\ a' = [a EXCEPT ![w] = IF Arithmetic(prog) THEN r.a ELSE @]
        /\ b' = [b EXCEPT ![w] = IF Arithmetic(prog) THEN r.b ELSE @]
        /\ local_scale' = [local_scale EXCEPT
                             ![w] = IF Arithmetic(prog) THEN r.scale ELSE @]
        /\ history' = [history EXCEPT ![w] = @ + 1]
        /\ steps' = [steps EXCEPT ![w] = IF Arithmetic(prog) THEN @ + 1 ELSE @]
        /\ batch_i' = [batch_i EXCEPT ![w] = IF last THEN 0 ELSE @ + 1]
        /\ local_added' = [local_added EXCEPT ![w] = count]
        /\ local_bytes' = [local_bytes EXCEPT
                             ![w] = IF prog = "finumpy" THEN @ + size_per_step
                                                        ELSE @]
        /\ wpc' = [wpc EXCEPT
                     ![w] = IF ~last THEN "batch"
                            ELSE IF HasRecheck(prog, count) THEN "recheck"
                            ELSE "loop"]
  /\ afterStop' = [afterStop EXCEPT ![w] = IF stop_event THEN @ + 1 ELSE @]
  /\ UNCHANGED <<prog, shared, peaks, monitorVars, tmp, exc, flushes,
                 harnessVars, stop_by>>

\* Whether the accumulator step of a pass has run when the pass fails to
\* allocate.  c.py allocates its bytearray after the step (the float of
\* "a + b" takes the place of the one the pass before released).  b.py
\* keeps every float in history, so either the new float of "a + b" fails,
\* before the registers change, or history.append fails, after.
StepBeforeFailure(p) == IF p = "b" THEN BOOLEAN ELSE {TRUE}

\* The pass that MemoryError leaves: nothing is appended and no tally of
\* units is raised, but the accumulator step and its rescale may have run.
PartialPass(w) ==
  /\ \E r \in {advance(a[w], b[w], local_scale[w])},
        stepped \in StepBeforeFailure(prog) :
       LET ran == stepped /\ Arithmetic(prog)
       IN /\ a' = [a EXCEPT ![w] = IF ran THEN r.a ELSE @]
          /\ b' = [b EXCEPT ![w] = IF ran THEN r.b ELSE @]
          /\ local_scale' = [local_scale EXCEPT
                               ![w] = IF ran THEN r.scale ELSE @]
          /\ steps' = [steps EXCEPT ![w] = IF ran THEN @ + 1 ELSE @]
  /\ UNCHANGED <<batch_i, local_added, local_bytes, history>>

\* ExceptMemoryError whose handler does not set the event.
ExceptMemoryError_NoSet(w) ==
  /\ wpc[w] = "batch"
  /\ PartialPass(w)
  /\ exc' = [exc EXCEPT ![w] = "mem"]
  /\ wpc' = [wpc EXCEPT ![w] = "flush_total"]
  /\ afterStop' = [afterStop EXCEPT ![w] = 0]
  /\ UNCHANGED <<prog, shared, peaks, monitorVars, tmp, flushes,
                 harnessVars, stop_by>>

\* An allocation of an iteration raises MemoryError: no unit of this
\* iteration is retained and "except MemoryError: stop_event.set()" runs
\* (b.py:77, c.py:125, finumpy.py:108, FN.py:78); the finally block is next.
ExceptMemoryError(w) ==
  /\ wpc[w] = "batch"
  /\ PartialPass(w)
  /\ exc' = [exc EXCEPT ![w] = "mem"]
  /\ stop_event' = TRUE
  /\ stop_by' = stop_by \cup {"worker"}
  /\ wpc' = [wpc EXCEPT ![w] = "flush_total"]
  /\ afterStop' = [afterStop EXCEPT ![w] = 0]
  /\ UNCHANGED <<prog, total_counter, scale_counter, total_bytes, lock, peaks,
                 monitorVars, tmp, flushes, harnessVars>>

\* RaiseOther whose handler sets the event like the MemoryError handler.
RaiseOther_SetsStop(w) ==
  /\ wpc[w] = "batch"
  /\ wpc' = [wpc EXCEPT ![w] = "flush_total"]
  /\ exc' = [exc EXCEPT ![w] = "other"]
  /\ stop_event' = TRUE
  /\ afterStop' = [afterStop EXCEPT ![w] = 0]
  /\ UNCHANGED <<prog, total_counter, scale_counter, total_bytes, lock, peaks,
                 monitorVars, workerLocals, tmp, flushes, harnessVars,
                 stop_by>>

\* Any other exception inside the loop: swallowed by "except Exception"
\* (b.py:79, finumpy.py:111, FN.py:80) or left to propagate (c.py); either
\* way the finally block runs next and stop_event is not touched.  The
\* locals are as the last completed pass left them.
RaiseOther(w) ==
  /\ wpc[w] = "batch"
  /\ wpc' = [wpc EXCEPT ![w] = "flush_total"]
  /\ exc' = [exc EXCEPT ![w] = "other"]
  /\ afterStop' = [afterStop EXCEPT ![w] = 0]
  /\ UNCHANGED <<prog, shared, peaks, monitorVars, workerLocals, tmp, flushes,
                 harnessVars, stop_by>>

\* Recheck that also reports the tally at the break, ahead of the finally.
Recheck_DoubleReport(w) ==
  /\ wpc[w] = "recheck"
  /\ wpc' = [wpc EXCEPT ![w] = IF stop_event THEN "flush_total" ELSE "loop"]
  /\ afterStop' = [afterStop EXCEPT ![w] = IF stop_event THEN 0 ELSE @]
  /\ total_counter' = IF stop_event THEN total_counter + Tally(prog, w)
                                    ELSE total_counter
  /\ flushes' = [flushes EXCEPT
                   ![w] = IF stop_event THEN <<@[1] + 1, @[2]>> ELSE @]
  /\ UNCHANGED <<prog, stop_event, scale_counter, total_bytes, lock, peaks,
                 monitorVars, workerLocals, tmp, exc, harnessVars, stop_by>>

\* The stop check at the end of the loop body (b.py:74, finumpy.py:104-106,
\* FN.py:76): break when the event is set.
Recheck(w) ==
  /\ wpc[w] = "recheck"
  /\ wpc' = [wpc EXCEPT ![w] = IF stop_event THEN "flush_total" ELSE "loop"]
  /\ afterStop' = [afterStop EXCEPT ![w] = IF stop_event THEN 0 ELSE @]
  /\ UNCHANGED <<prog, shared, peaks, monitorVars, workerLocals, tmp, exc,
                 flushes, harnessVars, stop_by>>

\* AcquireTotal without the lock: the "+=" on the bare shared value.
AcquireTotal_NoLock(w) ==
  /\ wpc[w] = "flush_total"
  /\ tmp' = [tmp EXCEPT ![w] = total_counter]
  /\ wpc' = [wpc EXCEPT ![w] = "add_total"]
  /\ UNCHANGED <<prog, shared, peaks, monitorVars, workerLocals, exc, flushes,
                 afterStop, harnessVars, stop_by>>

\* finally: "with total_counter.get_lock():" and the read of
\* total_counter.value in "+=".
AcquireTotal(w) ==
  /\ wpc[w] = "flush_total"
  /\ lock["total_counter"] = 0
  /\ lock' = [lock EXCEPT !["total_counter"] = w]
  /\ tmp' = [tmp EXCEPT ![w] = total_counter]
  /\ wpc' = [wpc EXCEPT ![w] = "add_total"]
  /\ UNCHANGED <<prog, stop_event, total_counter, scale_counter, total_bytes,
                 peaks, monitorVars, workerLocals, exc, flushes, afterStop,
                 harnessVars, stop_by>>

\* AddTotal by a Worker that also reports a full memory in the peak.
AddTotal_RecordsPeak(w) ==
  /\ wpc[w] = "add_total"
  /\ total_counter' = tmp[w] + Tally(prog, w)
  /\ lock' = [lock EXCEPT
                !["total_counter"] = IF @ = w THEN 0 ELSE @]
  /\ flushes' = [flushes EXCEPT ![w] = <<@[1] + 1, @[2]>>]
  /\ wpc' = [wpc EXCEPT
               ![w] = IF SecondCounter(prog) = "none" THEN "done"
                                                      ELSE "flush_second"]
  /\ tmp' = [tmp EXCEPT ![w] = 0]
  /\ max_mem_record' = 100
  /\ UNCHANGED <<prog, stop_event, scale_counter, total_bytes, max_cpu_record,
                 monitorVars, workerLocals, exc, afterStop, harnessVars,
                 stop_by>>

\* The write of "total_counter.value += ..." and the release of the lock.
\* FN.py has no second counter: its Worker is finished here.
AddTotal(w) ==
  /\ wpc[w] = "add_total"
  /\ total_counter' = tmp[w] + Tally(prog, w)
  /\ lock' = [lock EXCEPT
                !["total_counter"] = IF @ = w THEN 0 ELSE @]
  /\ flushes' = [flushes EXCEPT ![w] = <<@[1] + 1, @[2]>>]
  /\ wpc' = [wpc EXCEPT
               ![w] = IF SecondCounter(prog) = "none" THEN "done"
                                                      ELSE "flush_second"]
  /\ tmp' = [tmp EXCEPT ![w] = 0]
  /\ UNCHANGED <<prog, stop_event, scale_counter, total_bytes, peaks,
                 monitorVars, workerLocals, exc, afterStop, harnessVars,
                 stop_by>>

\* AcquireSecond nested inside the first "with": the Worker takes the
\* total counter's lock again and keeps it under the second one.
AcquireSecond_Nested(w) ==
  /\ wpc[w] = "flush_second"
  /\ lock[SecondCounter(prog)] = 0
  /\ lock["total_counter"] = 0
  /\ lock' = [lock EXCEPT ![SecondCounter(prog)] = w, !["total_counter"] = w]
  /\ tmp' = [tmp EXCEPT
               ![w] = IF prog = "finumpy" THEN total_bytes ELSE scale_counter]
  /\ wpc' = [wpc EXCEPT ![w] = "add_second"]
  /\ UNCHANGED <<prog, stop_event, total_counter, scale_counter, total_bytes,
                 peaks, monitorVars, workerLocals, exc, flushes, afterStop,
                 harnessVars, stop_by>>

\* "with scale_counter.get_lock():" (b.py:85, c.py:130) or
\* "with total_bytes.get_lock():" (finumpy.py:117), and the read.
AcquireSecond(w) ==
  /\ wpc[w] = "flush_second"
  /\ lock[SecondCounter(prog)] = 0
  /\ lock' = [lock EXCEPT ![SecondCounter(prog)] = w]
  /\ tmp' = [tmp EXCEPT
               ![w] = IF prog = "finumpy" THEN total_bytes ELSE scale_counter]
  /\ wpc' = [wpc EXCEPT ![w] = "add_second"]
  /\ UNCHANGED <<prog, stop_event, total_counter, scale_counter, total_bytes,
                 peaks, monitorVars, workerLocals, exc, flushes, afterStop,
                 harnessVars, stop_by>>

\* AddSecond that stores the local tally instead of adding it.
AddSecond_Store(w) ==
  /\ wpc[w] = "add_second"
  /\ IF prog = "finumpy"
       THEN /\ total_bytes' = Tally2(prog, w)
            /\ UNCHANGED scale_counter
       ELSE /\ scale_counter' = Tally2(prog, w)
            /\ UNCHANGED total_bytes
  /\ lock' = [lock EXCEPT
                ![SecondCounter(prog)] = IF @ = w THEN 0 ELSE @]
  /\ flushes' = [flushes EXCEPT ![w] = <<@[1], @[2] + 1>>]
  /\ wpc' = [wpc EXCEPT ![w] = "done"]
  /\ tmp' = [tmp EXCEPT ![w] = 0]
  /\ UNCHANGED <<prog, stop_event, total_counter, peaks, monitorVars,
                 workerLocals, exc, afterStop, harnessVars, stop_by>>

\* The write of the second "+=", the release, and the end of the process.
AddSecond(w) ==
  /\ wpc[w] = "add_second"
  /\ IF prog = "finumpy"
       THEN /\ total_bytes' = tmp[w] + Tally2(prog, w)
            /\ UNCHANGED scale_counter
       ELSE /\ scale_counter' = tmp[w] + Tally2(prog, w)
            /\ UNCHANGED total_bytes
  /\ lock' = [lock EXCEPT
                ![SecondCounter(prog)] = IF @ = w THEN 0 ELSE @]
  /\ flushes' = [flushes EXCEPT ![w] = <<@[1], @[2] + 1>>]
  /\ wpc' = [wpc EXCEPT ![w] = "done"]
  /\ tmp' = [tmp EXCEPT ![w] = 0]
  /\ UNCHANGED <<prog, stop_event, total_counter, peaks, monitorVars,
                 workerLocals, exc, afterStop, harnessVars, stop_by>>

WorkerNext(w) ==
  \/ WhileCheck(w)
  \/ Step(w)
  \/ RaiseOther(w)
  \/ ExceptMemoryError(w)
  \/ Recheck(w)
  \/ AcquireTotal(w)
  \/ AddTotal(w)
  \/ AcquireSecond(w)
  \/ AddSecond(w)

(* ------------------------------- Monitor ------------------------------ *)
Max(x, y) == IF x >= y THEN x ELSE y

\* UpdatePeak that stores the last sample whatever the record holds.
UpdatePeak_Last(record, sample) == sample

\* "if x > record.value: record.value = x".
UpdatePeak(record, sample) == IF sample > record THEN sample ELSE record

\* CeilingReached with a strict comparison.
CeilingReached_Strict(sample) == sample > MEMORY_LIMIT_PERCENT

\* "if mem_percent >= MEMORY_LIMIT_PERCENT:".
CeilingReached(sample) == sample >= MEMORY_LIMIT_PERCENT

\* "while not stop_event.is_set():" of memory_monitor; the monitor runs
\* inline in __main__, so when it returns the Harness goes on to the joins.
MonitorLoop ==
  /\ hpc = "monitor"
  /\ mpc = "loop"
  /\ IF stop_event
       THEN /\ mpc' = "returned"
            /\ mexit' = "stop"
            /\ hpc' = "join"
       ELSE /\ mpc' = IF SamplesCpu(prog) THEN "sample_cpu" ELSE "sample_mem"
            /\ UNCHANGED <<mexit, hpc>>
  /\ cpu_percent' = IF stop_event THEN 0 ELSE cpu_percent
  /\ mem_percent' = IF stop_event THEN 0 ELSE mem_percent
  /\ UNCHANGED <<prog, shared, peaks, cpuTakenMax,
                 memTakenMax, workerVars, joined, summary, stop_by>>

\* "cpu_percent = psutil.cpu_percent(interval=CHECK_INTERVAL)".
SampleCpu ==
  /\ hpc = "monitor"
  /\ mpc = "sample_cpu"
  /\ \E c \in CpuSamples :
       /\ cpu_percent' = c
       /\ cpuTakenMax' = Max(cpuTakenMax, c)
  /\ mpc' = "sample_mem"
  /\ UNCHANGED <<prog, shared, peaks, mexit, mem_percent, memTakenMax,
                 workerVars, harnessVars, stop_by>>

\* "mem = psutil.virtual_memory(); mem_percent = mem.percent".
SampleMem ==
  /\ hpc = "monitor"
  /\ mpc = "sample_mem"
  /\ \E m \in MemSamples :
       /\ mem_percent' = m
       /\ memTakenMax' = Max(memTakenMax, m)
  /\ mpc' = "update"
  /\ UNCHANGED <<prog, shared, peaks, mexit, cpu_percent, cpuTakenMax,
                 workerVars, harnessVars, stop_by>>

\* Either psutil call raises: "except Exception: ... break".  The loop is
\* left and memory_monitor returns; stop_event is not touched.
TelemetryError ==
  /\ hpc = "monitor"
  /\ mpc \in {"sample_cpu", "sample_mem"}
  /\ mpc' = "returned"
  /\ mexit' = "error"
  /\ hpc' = "join"
  /\ cpu_percent' = 0
  /\ mem_percent' = 0
  /\ UNCHANGED <<prog, shared, peaks, cpuTakenMax,
                 memTakenMax, workerVars, joined, summary, stop_by>>

\* UpdatePeaks placed after the ceiling check: the tick that reaches the
\* ceiling breaks before its memory sample is recorded.
UpdatePeaks_AfterCheck ==
  /\ hpc = "monitor"
  /\ mpc = "update"
  /\ max_mem_record' = IF CeilingReached(mem_percent)
                         THEN max_mem_record
                         ELSE UpdatePeak(max_mem_record, mem_percent)
  /\ max_cpu_record' = IF SamplesCpu(prog)
                         THEN UpdatePeak(max_cpu_record, cpu_percent)
                         ELSE max_cpu_record
  /\ mpc' = "check"
  /\ UNCHANGED <<prog, shared, mexit, cpu_percent, mem_percent, cpuTakenMax,
                 memTakenMax, workerVars, harnessVars, stop_by>>

\* The two "if ... > ....value" updates of the peak registers.
UpdatePeaks ==
  /\ hpc = "monitor"
  /\ mpc = "update"
  /\ max_mem_record' = UpdatePeak(max_mem_record, mem_percent)
  /\ max_cpu_record' = IF SamplesCpu(prog)
                         THEN UpdatePeak(max_cpu_record, cpu_percent)
                         ELSE max_cpu_record
  /\ mpc' = "check"
  /\ UNCHANGED <<prog, shared, mexit, cpu_percent, mem_percent, cpuTakenMax,
                 memTakenMax, workerVars, harnessVars, stop_by>>

\* The ceiling check that ends a tick: set the event and break, or go round
\* again (after time.sleep in b.py).
CeilingCheck ==
  /\ hpc = "monitor"
  /\ mpc = "check"
  /\ IF CeilingReached(mem_percent)
       THEN /\ stop_event' = TRUE
            /\ stop_by' = stop_by \cup {"monitor"}
            /\ mpc' = "returned"
            /\ mexit' = "ceiling"
            /\ hpc' = "join"
       ELSE /\ mpc' = "loop"
            /\ UNCHANGED <<stop_event, stop_by, mexit, hpc>>
  /\ cpu_percent' = 0
  /\ mem_percent' = 0
  /\ UNCHANGED <<prog, total_counter, scale_counter, total_bytes, lock, peaks,
                 cpuTakenMax, memTakenMax, workerVars,
                 joined, summary>>

(* ------------------------------- Harness ------------------------------ *)
\* KeyboardInterrupt while memory_monitor runs: it is no Exception, so it
\* leaves the monitor and reaches "except KeyboardInterrupt:
\* stop_event.set()" of __main__.
InterruptInMonitor ==
  /\ hpc = "monitor"
  /\ stop_event' = TRUE
  /\ stop_by' = stop_by \cup {"harness"}
  /\ mpc' = "returned"
  /\ mexit' = "interrupt"
  /\ hpc' = "join"
  /\ cpu_percent' = 0
  /\ mem_percent' = 0
  /\ UNCHANGED <<prog, total_counter, scale_counter, total_bytes, lock, peaks,
                 cpuTakenMax, memTakenMax, workerVars,
                 joined, summary>>

\* KeyboardInterrupt after the try block, while __main__ waits in p.join():
\* nothing catches it and __main__ ends with the traceback.
InterruptInJoin ==
  /\ hpc = "join"
  /\ hpc' = "aborted"
  /\ UNCHANGED <<prog, shared, peaks, monitorVars, workerVars, joined,
                 summary, stop_by>>

\* Join that returns whether or not the Worker has ended.
Join_NoWait ==
  /\ hpc = "join"
  /\ joined < NumWorkers
  /\ joined' = joined + 1
  /\ UNCHANGED <<prog, shared, peaks, monitorVars, workerVars, hpc, summary,
                 stop_by>>

\* "for p in workers: p.join()": the next join returns once that Worker's
\* process has ended.
Join ==
  /\ hpc = "join"
  /\ joined < NumWorkers
  /\ wpc[joined + 1] = "done"
  /\ joined' = joined + 1
  /\ UNCHANGED <<prog, shared, peaks, monitorVars, workerVars, hpc, summary,
                 stop_by>>

\* Summary that resets the event once the summary is printed.
Summary_Clear ==
  /\ hpc = "join"
  /\ joined = NumWorkers
  /\ summary' = <<[total |-> total_counter, scale |-> scale_counter,
                  bytes |-> total_bytes, max_mem |-> max_mem_record,
                  max_cpu |-> max_cpu_record]>>
  /\ hpc' = "done"
  /\ stop_event' = FALSE
  /\ UNCHANGED <<prog, total_counter, scale_counter, total_bytes, lock, peaks,
                 monitorVars, workerVars, joined, stop_by>>

\* After the last join: read the shared values and print the summary.
Summary ==
  /\ hpc = "join"
  /\ joined = NumWorkers
  /\ summary' = <<[total |-> total_counter, scale |-> scale_counter,
                  bytes |-> total_bytes, max_mem |-> max_mem_record,
                  max_cpu |-> max_cpu_record]>>
  /\ hpc' = "done"
  /\ UNCHANGED <<prog, shared, peaks, monitorVars, workerVars, joined,
                 stop_by>>

MonitorNext ==
  MonitorLoop \/ SampleCpu \/ SampleMem \/ TelemetryError \/ UpdatePeaks
    \/ CeilingCheck

HarnessNext == Join \/ Summary

Next ==
  \/ \E w \in Workers : WorkerNext(w)
  \/ MonitorNext
  \/ HarnessNext
  \/ InterruptInMonitor
  \/ InterruptInJoin

Spec == Init /\ [][Next]_vars

\* Every process that can take a step eventually takes one: each Worker is
\* an OS process of its own, and memory_monitor and the joins are steps of
\* the one __main__ process.  The interrupts and the exceptions are under
\* no obligation to happen.
FairSpec ==
  /\ Spec
  /\ \A w \in Workers : WF_vars(WorkerNext(w))
  /\ WF_vars(MonitorNext \/ HarnessNext)

(* ================================ claims =============================== *)
AllExited == \A w \in Workers : wpc[w] = "done"

\* What Worker w held in its local tallies when it flushed.
FlushedUnits(w) == local_added[w] * (IF prog = "FN" THEN CHUNK_SIZE_MB ELSE 1)
FlushedScale(w) == IF prog \in {"b", "c"} THEN local_scale[w] ELSE 0
FlushedBytes(w) == IF prog = "finumpy" THEN local_bytes[w] ELSE 0

\* C1: once every Worker has exited, each shared accumulator (units, bytes,
\* rescale count) equals the sum over the Workers of the local tally each
\* one flushed, whatever the interleaving of the flushes.
C1_NoLostUpdates ==
  AllExited =>
    /\ total_counter = Sum([w \in Workers |-> FlushedUnits(w)])
    /\ scale_counter = Sum([w \in Workers |-> FlushedScale(w)])
    /\ total_bytes = Sum([w \in Workers |-> FlushedBytes(w)])

\* Both Workers flushed a non-zero unit tally and a non-zero second tally.
C1_Witness ==
  /\ AllExited
  /\ \A w \in Workers : FlushedUnits(w) > 0
  /\ \A w \in Workers : FlushedScale(w) + FlushedBytes(w) > 0

\* The writes a finished Worker has made to <<total counter, 2nd counter>>.
OneFlush == <<1, IF SecondCounter(prog) = "none" THEN 0 ELSE 1>>

\* C2: every Worker adds its tallies to the shared counters exactly once,
\* at its termination, on every exit path: never while it is still in its
\* loop, never twice, and never zero times once it has exited.
C2_FlushExactlyOnce ==
  \A w \in Workers :
    /\ flushes[w][1] <= 1 /\ flushes[w][2] <= 1
    /\ wpc[w] \in {"loop", "batch", "recheck", "flush_total", "add_total"}
         => flushes[w] = <<0, 0>>
    /\ wpc[w] = "done" => flushes[w] = OneFlush

\* One Worker left by the allocation failure, another by another exception,
\* and both have exited.
C2_Witness ==
  /\ AllExited
  /\ \E w \in Workers : exc[w] = "mem"
  /\ \E w \in Workers : exc[w] = "other"
  /\ \A w \in Workers : flushes[w] = OneFlush

\* C3: the Harness has read the counters for the summary only when every
\* Worker has exited and been joined, and what it read is the final value.
C3_ReadAfterAllJoined ==
  (summary # << >> \/ hpc = "done") =>
    /\ AllExited
    /\ joined = NumWorkers
    /\ summary[1].total = total_counter
    /\ summary[1].scale = scale_counter
    /\ summary[1].bytes = total_bytes

\* The summary is printed in a run whose monitor ended on a telemetry error
\* and whose Workers produced something.
C3_Witness == hpc = "done" /\ mexit = "error" /\ summary[1].total > 0

\* C4: when a telemetry sample raised an error inside the monitor loop, the
\* StopSignal is set by the time the monitor has exited.
C4_TelemetryErrorSetsStop == mexit = "error" => stop_event

\* C5: the unit count a Worker flushes equals the number of units it
\* produced and retained in its ballast, also when the Worker ended on an
\* allocation failure in the middle of a batch.  (Stated for the Workers
\* that ended on the StopSignal or on MemoryError.)
C5_FlushedUnitsAreRetainedUnits ==
  \A w \in Workers :
    (flushes[w][1] = 1 /\ exc[w] # "other") => local_added[w] = history[w]

\* The monitor has returned and every Worker process has ended.
Quiet == mpc = "returned" /\ AllExited

\* C6: a Worker that hit MemoryError has set the StopSignal before it
\* flushes and exits, and from then on the monitor loop and every other
\* Worker eventually terminate.
C6_AllocFailureUnwindsFleet ==
  /\ [](\A w \in Workers : exc[w] = "mem" => stop_event)
  /\ (\E w \in Workers : exc[w] = "mem") ~> Quiet

\* One Worker failed to allocate; the monitor left its loop because it saw
\* the event at its poll, and the other Worker left on seeing it too.
C6_Witness ==
  /\ Quiet
  /\ mexit = "stop"
  /\ stop_by = {"worker"}
  /\ \E w \in Workers : exc[w] = "mem"
  /\ \E w \in Workers : exc[w] = "none" /\ history[w] > 0

\* The longest stretch a Worker may run between two looks at the event.
PollingBatch ==
  CASE Arithmetic(prog) -> BATCH_SIZE
    [] prog = "finumpy" -> CheckEvery
    [] prog = "FN" -> 1

\* C7: once the StopSignal is set a Worker begins at most one polling batch
\* worth of iterations before it leaves its loop, and a stop check that
\* finds the signal set never leads into a new batch.
C7_BoundedStopResponse ==
  /\ [](\A w \in Workers : afterStop[w] <= PollingBatch)
  /\ [][\A w \in Workers :
          (stop_event /\ wpc[w] \in {"loop", "recheck"} /\ wpc'[w] # wpc[w])
            => wpc'[w] = "flush_total"]_vars

\* An arithmetic Worker ran a whole batch with the signal already set: it
\* was set right after the Worker's stop check.
C7_Witness ==
  /\ Arithmetic(prog)
  /\ \E w \in Workers : afterStop[w] = BATCH_SIZE /\ wpc[w] # "batch"

\* C8: the tick whose memory sample is at or above the ceiling makes the
\* monitor set the StopSignal and leave its loop, after which it samples no
\* more; a tick whose sample is below the ceiling leaves the signal alone
\* and goes round again; the monitor has only ever set the signal for a
\* sample at or above the ceiling.
C8_CeilingStopsMonitor ==
  /\ [][(mpc = "check" /\ mpc' # "check" /\ mexit' # "interrupt") =>
          IF mem_percent >= MEMORY_LIMIT_PERCENT
            THEN stop_event' /\ mpc' = "returned" /\ mexit' = "ceiling"
            ELSE stop_event' = stop_event /\ mpc' = "loop"]_vars
  /\ [][mpc = "returned" =>
          UNCHANGED <<mpc, mexit, cpuTakenMax, memTakenMax, peaks>>]_vars
  /\ []("monitor" \in stop_by <=>
          (mexit = "ceiling" /\ memTakenMax >= MEMORY_LIMIT_PERCENT))
  /\ []((memTakenMax >= MEMORY_LIMIT_PERCENT /\ mpc \notin {"update", "check"})
          => (stop_event /\ mpc = "returned"))

\* The monitor stopped the run on a sample exactly at the ceiling, and
\* nothing else set the signal.
C8_Witness ==
  /\ mexit = "ceiling"
  /\ stop_by = {"monitor"}
  /\ memTakenMax = MEMORY_LIMIT_PERCENT

\* The monitor is between two ticks or has returned.
BetweenTicks == mpc \in {"loop", "returned"}

C10_InterruptStillSummarises ==
  hpc \in {"done", "aborted"} =>
    (joined = NumWorkers /\ AllExited /\ summary # << >>)

\* C11: the StopSignal is set-once: no step of the monitor, a Worker or the
\* Harness takes a set StopSignal back to unset.
C11_StopIsSetOnce == [][stop_event => stop_event']_vars

\* The monitor and a Worker both set the signal, and it was still set when
\* the Harness printed the summary.
C11_Witness ==
  /\ hpc = "done"
  /\ stop_by = {"monitor", "worker"}
  /\ stop_event

\* Under fair scheduling a set StopSignal makes every Worker leave its loop
\* and finish its flush.
C12_FleetDrains == stop_event ~> AllExited

\* C12: once the StopSignal is set, under fair scheduling every Worker
\* eventually finishes its flush, the joins return and the summary is
\* eventually printed.
C12_StopLeadsToSummary == stop_event ~> (AllExited /\ hpc = "done")

\* Comparisons of the fractions that stand for the float values.
RatLt(x, y) == x[1] * y[2] < y[1] * x[2]
Finite(x) == x[2] > 0 /\ x[1] <= FLOAT_MAX * x[2]

\* A step took the value prev to new: new is finite and strictly greater
\* than prev, or than prev times the scale factor when the step rescaled.
Grows(prev, new, rescaled) ==
  /\ Finite(new)
  /\ IF rescaled THEN RatLt(prev, <<new[1] * ScaleDiv, new[2]>>)
                  ELSE RatLt(prev, new)

AccTrace == AccRun(AccDepth)

\* C13: from a = b = 1.0, every accumulator step produces a finite value
\* that is strictly greater than the value of the step before, or, on a
\* step that rescales, strictly greater than that value times the scale
\* factor: for every step a Worker takes, and along the run of AccDepth
\* steps.
C13_StepsGrow ==
  /\ [][\A w \in Workers :
          steps'[w] # steps[w] =>
            Grows(b[w], b'[w], local_scale'[w] # local_scale[w])]_vars
  /\ [](\A n \in 1..AccDepth :
          Grows(AccTrace[n].b, AccTrace[n + 1].b, AccTrace[n + 1].rescaled))

\* A Worker took two rescaling steps and then one that does not rescale.
C13_Witness ==
  /\ Arithmetic(prog)
  /\ \E w \in Workers :
       /\ history[w] = 4 /\ local_scale[w] = 2
       /\ b[w] = AccTrace[5].b /\ ~AccTrace[5].rescaled

\* The second counter of the running script, 0 where there is none.
Second == IF prog = "finumpy" THEN total_bytes ELSE scale_counter

\* C14: no step lowers a shared accumulator, and every step that changes
\* one adds the non-negative local tally of a Worker that holds that
\* accumulator's lock.
C14_AccumulatorsOnlyGrow ==
  [][/\ total_counter' >= total_counter
     /\ scale_counter' >= scale_counter
     /\ total_bytes' >= total_bytes
     /\ total_counter' # total_counter =>
          \E w \in Workers :
            /\ lock["total_counter"] = w
            /\ Tally(prog, w) >= 0
            /\ total_counter' = total_counter + Tally(prog, w)
     /\ <<scale_counter, total_bytes>>' # <<scale_counter, total_bytes>> =>
          \E w \in Workers :
            /\ lock[SecondCounter(prog)] = w
            /\ Tally2(prog, w) >= 0
            /\ Second' = Second + Tally2(prog, w)]_vars

\* A Worker holds the second counter's lock and is about to add a non-zero
\* tally to a counter that another Worker has already raised.
C14_Witness ==
  \E w \in Workers :
    /\ wpc[w] = "add_second"
    /\ lock[SecondCounter(prog)] = w
    /\ Second > 0
    /\ Tally2(prog, w) > 0

\* C15: whenever the StopSignal is set, a memory sample has reached the
\* ceiling, or the operator has interrupted, or a Worker has failed to
\* allocate; a step that sets it is one of those three events, and a
\* Worker's other exception is not.
C15_StopHasSanctionedCause ==
  /\ [](stop_event =>
          \/ memTakenMax >= MEMORY_LIMIT_PERCENT
          \/ mexit = "interrupt"
          \/ \E w \in Workers : exc[w] = "mem")
  /\ [][(~stop_event /\ stop_event') =>
          \/ mem_percent >= MEMORY_LIMIT_PERCENT /\ mexit' = "ceiling"
          \/ mexit' = "interrupt"
          \/ \E w \in Workers : exc[w] # "mem" /\ exc'[w] = "mem"]_vars

\* A Worker ended on another exception and the signal stayed unset until
\* the operator's interrupt, the only cause in this run.
C15_Witness ==
  /\ stop_event
  /\ stop_by = {"harness"}
  /\ memTakenMax < MEMORY_LIMIT_PERCENT
  /\ \E w \in Workers : exc[w] = "other" /\ wpc[w] = "done"
  /\ \A w \in Workers : exc[w] # "mem"

\* A step from registers (pa, pb) to (na, nb) that raised the rescale count
\* by dscale: (a, b) = (b, a + b), and exactly when the sum exceeds the
\* threshold both are multiplied by the scale factor and dscale is 1.
StepOK(pa, pb, na, nb, dscale) ==
  LET sum == RatAdd(pa, pb)
  IN IF sum[1] > THRESHOLD * sum[2]
       THEN /\ na = Reduce(<<pb[1], pb[2] * ScaleDiv>>)
            /\ nb = Reduce(<<sum[1], sum[2] * ScaleDiv>>)
            /\ dscale = 1
       ELSE na = pb /\ nb = sum /\ dscale = 0

\* The rescale events among the first n steps from a = b = 1.0.
RescaleEvents(n) ==
  Cardinality({k \in 1..n :
    LET sum == RatAdd(AccTrace[k].a, AccTrace[k].b)
    IN sum[1] > THRESHOLD * sum[2]})

\* C16: every accumulator step sets (a, b) to (b, a + b), rescales both by
\* the one factor exactly when the new b exceeds the threshold and then
\* raises the local rescale count by one; a Worker's local rescale count is
\* the number of rescale events of the steps it ran, and that is what the
\* Workers have flushed to the shared rescale counter when all have exited.
C16_RescaleStepAndCount ==
  /\ [][\A w \in Workers :
          steps'[w] # steps[w] =>
            StepOK(a[w], b[w], a'[w], b'[w],
                   local_scale'[w] - local_scale[w])]_vars
  /\ [](\A n \in 1..AccDepth :
          StepOK(AccTrace[n].a, AccTrace[n].b, AccTrace[n + 1].a,
                 AccTrace[n + 1].b, AccTrace[n + 1].scale - AccTrace[n].scale))
  /\ [](\A w \in Workers : local_scale[w] = RescaleEvents(steps[w]))
  /\ []((AllExited /\ Arithmetic(prog)) =>
          scale_counter = Sum([w \in Workers |-> RescaleEvents(steps[w])]))

\* A Worker's last pass rescaled and then failed to allocate: the rescale
\* is counted although the pass retained no unit, and it has been flushed.
C16_Witness ==
  /\ AllExited
  /\ scale_counter > 0
  /\ \E w \in Workers :
       /\ exc[w] = "mem"
       /\ steps[w] = history[w] + 1
       /\ local_scale[w] = RescaleEvents(history[w]) + 1

\* C17: the peak registers have a single writer: every Worker step and
\* every Harness step leaves both unchanged, only the monitor's peak update
\* changes them, and every monitor step leaves the shared accumulators
\* unchanged.
C17_PeaksHaveOneWriter ==
  [][/\ (\E w \in Workers : WorkerNext(w)) => UNCHANGED peaks
     /\ (HarnessNext \/ InterruptInMonitor \/ InterruptInJoin)
          => UNCHANGED peaks
     /\ peaks' # peaks => UpdatePeaks
     /\ MonitorNext =>
          UNCHANGED <<total_counter, scale_counter, total_bytes>>]_vars

\* The monitor is in a tick after an earlier tick recorded the peaks, while
\* a Worker that failed to allocate has already flushed its units.
C17_Witness ==
  /\ mpc = "update"
  /\ max_mem_record > 0
  /\ mem_percent > max_mem_record
  /\ total_counter > 0

\* C18: when the monitor set the StopSignal for a memory sample at or above
\* the ceiling, the peak-memory register already holds that sample or more
\* at the step that sets the signal, it is at or above the ceiling from then
\* on, and so is the peak memory of the summary of such a run.
C18_CeilingStopHasPeakAtCeiling ==
  /\ [][(mpc = "check" /\ mexit' = "ceiling") =>
          (max_mem_record >= mem_percent
             /\ max_mem_record >= MEMORY_LIMIT_PERCENT)]_vars
  /\ [](mexit = "ceiling" => max_mem_record >= MEMORY_LIMIT_PERCENT)
  /\ []((mexit = "ceiling" /\ summary # << >>) =>
          summary[1].max_mem >= MEMORY_LIMIT_PERCENT)

\* The summary of a run the monitor stopped on a sample above the ceiling,
\* with units flushed.
C18_Witness ==
  /\ hpc = "done"
  /\ mexit = "ceiling"
  /\ summary[1].max_mem = MEMORY_LIMIT_PERCENT + 1
  /\ summary[1].total > 0

\* The locks Worker w holds.
Held(w) == {c \in DOMAIN lock : lock[c] = w}

Flushing(w) ==
  wpc[w] \in {"flush_total", "add_total", "flush_second", "add_second"}

\* C19: a Worker holds at most one counter lock at a time, and the holder
\* of a lock is at the write that releases it, waiting for nothing; under
\* fair scheduling no Worker stays in its flush forever (again and again no
\* Worker is inside its flush), and a Worker that has exited has written
\* each of its counters.
C19_FlushIsDeadlockFree ==
  /\ [](\A w \in Workers : Cardinality(Held(w)) <= 1)
  /\ [](\A c \in DOMAIN lock :
          lock[c] # 0 =>
            wpc[lock[c]] = (IF c = "total_counter" THEN "add_total"
                                                   ELSE "add_second"))
  /\ [](\A w \in Workers : wpc[w] = "done" => flushes[w] = OneFlush)
  /\ []<>(\A w \in Workers : ~Flushing(w))

\* Both Workers are flushing at once: one holds the total counter's lock,
\* the other the second counter's, and each has one write still to come.
C19_Witness ==
  /\ prog # "FN"
  /\ \E w, v \in Workers :
       /\ w # v
       /\ Held(w) = {"total_counter"}
       /\ Held(v) = {SecondCounter(prog)}

\* C20: in b.py and c.py a Worker's unit tally changes only at the pass
\* that completes a batch, by BATCH_SIZE, so the tally is the number of
\* completed batches times BATCH_SIZE and the shared total-units counter
\* is a multiple of BATCH_SIZE; the Worker looks at the StopSignal only
\* between batches.
C20_TallyInWholeBatches ==
  /\ [](Arithmetic(prog) =>
          /\ total_counter % BATCH_SIZE = 0
          /\ \A w \in Workers :
               /\ local_added[w] = (history[w] \div BATCH_SIZE) * BATCH_SIZE
               /\ wpc[w] \in {"loop", "recheck"} =>
                    history[w] % BATCH_SIZE = 0)
  /\ [][Arithmetic(prog) =>
          \A w \in Workers :
            local_added'[w] # local_added[w] =>
              /\ history'[w] % BATCH_SIZE = 0
              /\ local_added'[w] = local_added[w] + BATCH_SIZE]_vars

\* A Worker ended in the middle of its second batch and the other before
\* completing one: the total is the one completed batch.
C20_Witness ==
  /\ Arithmetic(prog)
  /\ AllExited
  /\ total_counter = BATCH_SIZE
  /\ \E w \in Workers : history[w] = BATCH_SIZE + 1
  /\ \E w \in Workers : history[w] = 1

RatLe(x, y) == x[1] * y[2] <= y[1] * x[2]

\* Registers inside the range 0 < a <= b <= THRESHOLD.
InRange(ra, rb) ==
  /\ ra[1] > 0 /\ ra[2] > 0
  /\ RatLe(ra, rb)
  /\ RatLe(rb, <<THRESHOLD, 1>>)

\* The sum a + b a step computes from in-range registers is at most
\* 2 x THRESHOLD, below the largest float, and one rescale of it is at most
\* THRESHOLD.
SumBounded(ra, rb) ==
  LET sum == RatAdd(ra, rb)
  IN /\ RatLe(sum, <<2 * THRESHOLD, 1>>)
     /\ Finite(sum)
     /\ RatLe(<<sum[1], sum[2] * ScaleDiv>>, <<THRESHOLD, 1>>)

\* C21: at the start and after every accumulator step 0 < a <= b <=
\* THRESHOLD; the sum a + b computed within a step never exceeds
\* 2 x THRESHOLD, so it stays below the largest float, and a single rescale
\* of it is at most THRESHOLD: for every step a Worker takes, and along
\* the run of AccDepth steps.
C21_RegistersStayInRange ==
  /\ [](\A w \in Workers : InRange(a[w], b[w]) /\ SumBounded(a[w], b[w]))
  /\ [](\A n \in 1..(AccDepth + 1) :
          /\ InRange(AccTrace[n].a, AccTrace[n].b)
          /\ SumBounded(AccTrace[n].a, AccTrace[n].b))

\* A Worker's third step rescaled a sum above the threshold, and the
\* registers it left are apart and inside the range.
C21_Witness ==
  \E w \in Workers :
    /\ steps[w] = 3
    /\ AccTrace[4].rescaled
    /\ a[w] = AccTrace[4].a /\ b[w] = AccTrace[4].b
    /\ RatLt(a[w], b[w])
    /\ RatLt(<<THRESHOLD, 1>>, RatAdd(AccTrace[3].a, AccTrace[3].b))

====
